---------------------------- MODULE Spec2Model ----------------------------
(***************************************************************************)
(* A model of bellperson's Groth16 proof aggregation prover                *)
(* (src/groth16/aggregate/prove.rs), of the GPU lock layer                 *)
(* (src/gpu/locks.rs) and of the multiexp entry point (src/multiexp.rs).   *)
(*                                                                         *)
(* Spec      the processes that use LockedMultiexpKernel/LockedFFTKernel   *)
(*           and the two advisory file locks.                              *)
(* SpecFair  the same for processes of normal priority with the GPU        *)
(*           enabled, every process scheduled fairly.                      *)
(* SpecPoly  the two transcript polynomial functions and the KZG opening.  *)
(* SpecGipa  gipa_tipp and gipa_mipp, round by round.                      *)
(* SpecAgg   aggregate_proofs, statement by statement.                     *)
(* SpecPar   the prover with every rayon task scheduled on its own.        *)
(***************************************************************************)
EXTENDS Integers, Sequences, FiniteSets, TLC

VARIABLES
    \* ---- src/gpu/locks.rs ----
    pc,             \* per process: its position inside with()/init()/free()
    priority,       \* per process: LockedKernel.priority
    kernel,         \* per process: LockedKernel.kernel (None or a kernel)
    taken_kernel,   \* per process: the local _kernel of free() (None or a kernel)
    gpu_lock,       \* per process: LockedKernel.gpu_lock is Some
    prio_lock,      \* per process: the process owns a PriorityLock object
    f,              \* per process: the closure the running with() was given
    result,         \* per process: what the last with() returned
    gpu_file,       \* holders of the exclusive flock on bellman.gpu.lock
    priority_file,  \* handles holding the exclusive flock on bellman.priority.lock
    BELLMAN_NO_GPU, \* per process: the environment variable is set
    \* ---- src/multiexp.rs ----
    multiexp_pc,    \* per process: its position inside multiexp()
    result_cpu,     \* per process: the Waiter of multiexp_cpu (pending or done)
    multiexp_result, \* per process: what the last multiexp() returned: the
                    \* GPU's p or the value of result_cpu
    \* ---- src/groth16/aggregate/prove.rs ----
    poly,           \* a run of the two transcript polynomial functions
    tipp,           \* a run of gipa_tipp: its working vectors and outputs
    mipp,           \* a run of gipa_mipp: its working vectors and outputs
    agg             \* a run of aggregate_proofs: its inputs, locals and result

callerVars == <<BELLMAN_NO_GPU, multiexp_pc, result_cpu, multiexp_result>>

gpuVars == <<pc, priority, kernel, taken_kernel, gpu_lock, prio_lock, f, result,
             gpu_file, priority_file, callerVars>>

proverVars == <<poly, tipp, mipp, agg>>

vars == <<gpuVars, proverVars>>

(***************************************************************************)
(*        Field, groups, pairing and hashing used by prove.rs              *)
(*                                                                         *)
(* E::Fr is scaled down to the prime field of FrModulus elements.  G1, G2  *)
(* and GT have prime order FrModulus, so an element is written as its      *)
(* discrete logarithm: the group law is addition modulo FrModulus, a       *)
(* scalar multiplication is a product and e(a, b) is a * b.                *)
(***************************************************************************)

\* The order of E::Fr (and of G1, G2, GT).
FrModulus == 7

\* Sha256::digest scaled down: a digest is a number below DigestRange.
DigestRange == 8

\* u128 scaled down: what the first half of a digest can hold.  As in the
\* source (2^128 is below the order of Fr) it is below FrModulus.
U128Range == 4

Fr == 0..(FrModulus - 1)

\* Option::None of a field element, and the mark of a panicked computation.
NoFr == -1

\* The value of a field computation that panicked.
PanicFr == -2

zero == 0
one == 1

add(a, b) == (a + b) % FrModulus
mul(a, b) == (a * b) % FrModulus
negate(a) == (FrModulus - a) % FrModulus

\* Field::inverse: None for zero.
inverse(a) ==
    IF a % FrModulus = 0 THEN NoFr
    ELSE CHOOSE y \in 1..(FrModulus - 1) : (a * y) % FrModulus = 1

Min(a, b) == IF a < b THEN a ELSE b

\* The element of a one-element set.  The({body : x \in {e}}) is body where
\* x is the value of e, computed once, as a Rust  let x = e;  does.
The(S) == CHOOSE y \in S : TRUE

Last(s) == s[Len(s)]

\* split_at / split_at_mut / Vec::split_off at mid <= len.
Left(s, mid) == SubSeq(s, 1, mid)
Right(s, mid) == SubSeq(s, mid + 1, Len(s))

\* A mutation of resize: the vector is not shrunk.
resize_forgotten(s, len, value) == s

\* Vec::resize(len, value).
resize(s, len, value) ==
    [i \in 1..len |-> IF i <= Len(s) THEN s[i] ELSE value]

\* Sha256::digest of the serialized hash input.  Every item of the input is
\* one serialized value, in the order the source writes them.
RECURSIVE Sha256Prefix(_, _)
Sha256Prefix(input, k) ==
    IF k = 0 THEN 0
    ELSE (5 * Sha256Prefix(input, k - 1) + input[k] + 1) % DigestRange

Sha256(input) == The({Sha256Prefix(bytes, Len(bytes)) : bytes \in {input}})

\* Field::from_random_bytes on a digest: Some only for a canonical value.
\* Zero is canonical.
from_random_bytes(d) == IF d < FrModulus THEN d ELSE NoFr

\* fr_from_u128: the first 16 bytes of the digest, big-endian, as a field
\* element.
fr_from_u128(d) == d \div (DigestRange \div U128Range)

\* structured_scalar_power(n, r) = [1, r, r^2, ..., r^(n-1)].
RECURSIVE structured_scalar_power(_, _)
structured_scalar_power(n, r) ==
    IF n = 0 THEN <<>>
    ELSE IF n = 1 THEN <<one>>
    ELSE The({Append(prev, mul(Last(prev), r))
              : prev \in {structured_scalar_power(n - 1, r)}})

\* inner_product::pairing(A, B) = prod e(A_i, B_i) over the zipped pairs.
RECURSIVE PairingPrefix(_, _, _)
PairingPrefix(A, B, k) ==
    IF k = 0 THEN zero
    ELSE add(PairingPrefix(A, B, k - 1), mul(A[k], B[k]))

pairing(A, B) ==
    The({PairingPrefix(a, b, Min(Len(a), Len(b))) : a \in {A}, b \in {B}})

\* inner_product::multiexponentiation(C, r) = prod C_i^(r_i).
multiexponentiation(C, r) == pairing(C, r)

\* commit::pair(vkey, wkey, A, B) = (prod e(A_i, v_i), prod e(w_i, B_i)).
commit_pair(vkey, wkey, A, B) == <<pairing(A, vkey), pairing(wkey, B)>>

\* commit::single_g1(vkey, C) = prod e(C_i, v_i).
commit_single_g1(vkey, C) == pairing(C, vkey)

\* VKey::correct_len / WKey::correct_len: the key has the expected length.
correct_len(key, n) == Len(key) = n

\* VKey::scale(scalars): pointwise scalar multiplication.
scale(key, scalars) ==
    [i \in 1..Min(Len(key), Len(scalars)) |-> mul(key[i], scalars[i])]

\* VKey::split / WKey::split(at): panics when at is beyond the key.
CanSplit(key, at) == at <= Len(key)

\* VKey::compress / WKey::compress(left, right, x) = (left_i + x * right_i)_i.
compress(left, right, x) ==
    [i \in 1..Min(Len(left), Len(right)) |-> add(left[i], mul(x, right[i]))]


(***************************************************************************)
(*      prove.rs: the polynomial induced by a challenge transcript         *)
(***************************************************************************)

\* Longest transcript the polynomial functions are run on.
MaxTranscript == 2

RECURSIVE Pow2(_)
Pow2(i) == IF i = 0 THEN 1 ELSE 2 * Pow2(i - 1)

\* polynomial_coefficients_from_transcript after the first k iterations of
\* its outer loop: the coefficient vector and power_2_r.
RECURSIVE CoefficientsLoop(_, _, _)
CoefficientsLoop(transcript, r_shift, k) ==
    IF k = 0 THEN [coefficients |-> <<one>>, power_2_r |-> r_shift]
    ELSE The({[coefficients |->
                 s.coefficients \o
                 [j \in 1..Pow2(k - 1) |->
                     mul(s.coefficients[j], mul(transcript[k], s.power_2_r))],
               power_2_r |-> mul(s.power_2_r, s.power_2_r)]
              : s \in {CoefficientsLoop(transcript, r_shift, k - 1)}})

polynomial_coefficients_from_transcript(transcript, r_shift) ==
    The({CoefficientsLoop(t, r, Len(t)).coefficients
         : t \in {transcript}, r \in {r_shift}})

\* polynomial_evaluation_product_form_from_transcript after the 0 iteration
\* and k - 1 iterations of "the rest": res and power_2_zr.
RECURSIVE ProductFormLoop(_, _, _, _)
ProductFormLoop(transcript, z, r_shift, k) ==
    IF k = 1
    THEN LET power_2_zr == mul(mul(z, z), r_shift)
         IN [res |-> add(one, mul(transcript[1], power_2_zr)),
             power_2_zr |-> mul(power_2_zr, power_2_zr)]
    ELSE The({[res |-> mul(s.res, add(one, mul(transcript[k], s.power_2_zr))),
               power_2_zr |-> mul(s.power_2_zr, s.power_2_zr)]
              : s \in {ProductFormLoop(transcript, z, r_shift, k - 1)}})

\* transcript[0] panics on an empty transcript.
polynomial_evaluation_product_form_from_transcript(transcript, z, r_shift) ==
    The({IF Len(t) = 0 THEN PanicFr ELSE ProductFormLoop(t, x, r, Len(t)).res
         : t \in {transcript}, x \in {z}, r \in {r_shift}})

RECURSIVE SeqsUpTo(_, _)
SeqsUpTo(S, n) ==
    IF n = 0 THEN {<<>>}
    ELSE LET shorter == SeqsUpTo(S, n - 1)
         IN shorter \cup {Append(t, x) : t \in {u \in shorter : Len(u) = n - 1}, x \in S}

PolyOff == [pc |-> "off", transcript |-> <<>>, z |-> zero, r_shift |-> zero,
            coefficients |-> <<>>, value |-> NoFr, srs_powers_len |-> 0,
            opening |-> <<NoFr, NoFr>>, opening_status |-> "none", tasks |-> {}]

PolyStart(t, z, r_shift, srs_powers_len) ==
    [PolyOff EXCEPT !.pc = "start", !.transcript = t, !.z = z, !.r_shift = r_shift,
                    !.srs_powers_len = srs_powers_len]

\* The O(2^l) path: expand the coefficients.
PolyCoefficients ==
    /\ poly.pc = "start"
    /\ poly' = [poly EXCEPT
                  !.coefficients = polynomial_coefficients_from_transcript(
                                       poly.transcript, poly.r_shift),
                  !.pc = "expanded"]
    /\ UNCHANGED <<gpuVars, tipp, mipp, agg>>

\* The O(l) path: evaluate in product form.
PolyEvaluation ==
    /\ poly.pc = "expanded"
    /\ poly' = [poly EXCEPT
                  !.value = polynomial_evaluation_product_form_from_transcript(
                                poly.transcript, poly.z, poly.r_shift),
                  !.pc = "done"]
    /\ UNCHANGED <<gpuVars, tipp, mipp, agg>>


(***************************************************************************)
(*                 prove.rs: gipa_tipp and gipa_mipp                       *)
(***************************************************************************)

\* The input vectors have length 2^k, k up to MaxLog.
MaxLog == 2

\* Input vectors are the arithmetic progressions (s + t*i) with s, t up to
\* MaxCoef.
MaxCoef == 1

Vectors(n) ==
    {[i \in 1..n |-> (s + t * i) % FrModulus] : s \in 0..MaxCoef, t \in 0..MaxCoef}

RECURSIVE Log2(_)
Log2(n) == IF n <= 1 THEN 0 ELSE 1 + Log2(n \div 2)

is_power_of_two(n) == n > 0 /\ Pow2(Log2(n)) = n

\* The 'challenge loop of a GIPA round, from counter_nonce on: hash the
\* counter and the round's items, map the digest into Fr with fr_from_u128
\* and retry with the next counter until it is invertible.  The pair that
\* leaves the loop is (c_inv, c): the inverse goes first.
\* A mutation of ChallengeLoop: the pair leaves the loop unswapped, (c, c_inv).
RECURSIVE ChallengeLoopUnswapped(_, _)
ChallengeLoopUnswapped(counter_nonce, items) ==
    The({IF inverse(c) # NoFr
         THEN [c |-> c, c_inv |-> inverse(c), counter_nonce |-> counter_nonce,
               hash_input |-> hash_input]
         ELSE ChallengeLoopUnswapped(counter_nonce + 1, items)
         : hash_input \in {<<counter_nonce>> \o items},
           c \in {fr_from_u128(Sha256(<<counter_nonce>> \o items))}})

RECURSIVE ChallengeLoop(_, _)
ChallengeLoop(counter_nonce, items) ==
    The({IF inverse(c) # NoFr
         THEN [c |-> inverse(c), c_inv |-> c, counter_nonce |-> counter_nonce,
               hash_input |-> hash_input]
         ELSE ChallengeLoop(counter_nonce + 1, items)
         : hash_input \in {<<counter_nonce>> \o items},
           c \in {fr_from_u128(Sha256(<<counter_nonce>> \o items))}})

\* A mutation of LastOrZero: always the default transcript.
DefaultTranscript(challenges) == zero

\* transcript = challenges.last().unwrap_or(&zero)
LastOrZero(challenges) == IF challenges = <<>> THEN zero ELSE Last(challenges)

\* A mutation of FoldLeft: the left half is left as it was.
FoldLeftUnchanged(left, right, x) == left

\* A mutation of FoldLeft: the right half is added unscaled.
FoldLeftUnscaled(left, right, x) ==
    [i \in 1..Len(left) |->
        IF i <= Len(right) THEN add(left[i], right[i]) ELSE left[i]]

\* The in-place fold of a left half: left_i <- left_i + x * right_i over the
\* zipped pairs.
FoldLeft(left, right, x) ==
    [i \in 1..Len(left) |->
        IF i <= Len(right) THEN add(left[i], mul(x, right[i])) ELSE left[i]]

\* let split = m_a.len() / 2
GipaSplit(len) == len \div 2

\* The items a round of gipa_tipp serializes after the counter.
TippHashItems(transcript, C_l, C_r, Z_l, Z_r) ==
    <<transcript, C_r[1], C_r[2], Z_r, C_l[1], C_r[2], Z_l>>

\* The splits of a round of gipa_tipp panic when a half is out of range.
TippSplitFails(s) ==
    LET split == GipaSplit(Len(s.m_a))
    IN split > Len(s.m_b) \/ ~CanSplit(s.vkey, split) \/ ~CanSplit(s.wkey, split)

\* The values of the four closures of rayon::join before they have run.
NoTippCross == [C_l |-> <<NoFr, NoFr>>, C_r |-> <<NoFr, NoFr>>,
                Z_l |-> NoFr, Z_r |-> NoFr]

\* A mutation of TippCross: Z_l and Z_r are taken over each other's halves.
TippCrossSwapped(s, t) ==
    LET split == GipaSplit(Len(s.m_a))
        A_left == Left(s.m_a, split)
        A_right == Right(s.m_a, split)
        B_left == Left(s.m_b, split)
        B_right == Right(s.m_b, split)
        vk_left == Left(s.vkey, split)
        vk_right == Right(s.vkey, split)
        wk_left == Left(s.wkey, split)
        wk_right == Right(s.wkey, split)
    IN CASE t = "C_l" -> commit_pair(vk_left, wk_right, A_right, B_left)
         [] t = "C_r" -> commit_pair(vk_right, wk_left, A_left, B_right)
         [] t = "Z_l" -> pairing(A_left, B_right)
         [] t = "Z_r" -> pairing(A_right, B_left)

\* Lines 215-228: the closure of rayon::join that computes t, over the halves
\* of the round.
TippCross(s, t) ==
    LET split == GipaSplit(Len(s.m_a))
        A_left == Left(s.m_a, split)
        A_right == Right(s.m_a, split)
        B_left == Left(s.m_b, split)
        B_right == Right(s.m_b, split)
        vk_left == Left(s.vkey, split)
        vk_right == Right(s.vkey, split)
        wk_left == Left(s.wkey, split)
        wk_right == Right(s.wkey, split)
    IN CASE t = "C_l" -> commit_pair(vk_left, wk_right, A_right, B_left)
         [] t = "C_r" -> commit_pair(vk_right, wk_left, A_left, B_right)
         [] t = "Z_l" -> pairing(A_right, B_left)
         [] t = "Z_r" -> pairing(A_left, B_right)

\* Lines 230-299: the challenge of the round and the folds, from the values
\* x that rayon::join returned.
TippFold(s, x) ==
    LET split == GipaSplit(Len(s.m_a))
        A_left == Left(s.m_a, split)
        A_right == Right(s.m_a, split)
        B_left == Left(s.m_b, split)
        B_right == Right(s.m_b, split)
        vk_left == Left(s.vkey, split)
        vk_right == Right(s.vkey, split)
        wk_left == Left(s.wkey, split)
        wk_right == Right(s.wkey, split)
        transcript == LastOrZero(s.challenges)
    IN The({[s EXCEPT
               !.m_a = resize(FoldLeft(A_left, A_right, ch.c) \o A_right,
                              Len(A_left), zero),
               !.m_b = resize(FoldLeft(B_left, B_right, ch.c_inv) \o B_right,
                              Len(B_right), zero),
               !.vkey = compress(vk_left, vk_right, ch.c_inv),
               !.wkey = compress(wk_left, wk_right, ch.c),
               !.comms = Append(s.comms, <<x.C_l, x.C_r>>),
               !.z_vec = Append(s.z_vec, <<x.Z_l, x.Z_r>>),
               !.challenges = Append(s.challenges, ch.c),
               !.hash_inputs = Append(s.hash_inputs, ch.hash_input)]
            : ch \in {ChallengeLoop(0, TippHashItems(transcript, x.C_l, x.C_r,
                                                     x.Z_l, x.Z_r))}})

\* One iteration of the while loop of gipa_tipp.
TippRound(s) ==
    IF TippSplitFails(s)
    THEN [s EXCEPT !.panicked = TRUE]
    ELSE The({TippFold(s, x)
              : x \in {[C_l |-> TippCross(s, "C_l"), C_r |-> TippCross(s, "C_r"),
                        Z_l |-> TippCross(s, "Z_l"), Z_r |-> TippCross(s, "Z_r")]}})

\* The locals of gipa_tipp before its loop.
TippStart(A, B, vkey, wkey) ==
    [pc |-> "loop", n |-> Len(A), m_a |-> A, m_b |-> B, vkey |-> vkey,
     wkey |-> wkey, comms |-> <<>>, z_vec |-> <<>>, challenges |-> <<>>,
     hash_inputs |-> <<>>, panicked |-> FALSE, cross |-> NoTippCross,
     tasks |-> {},
     args |-> [A |-> A, B |-> B, vkey |-> vkey, wkey |-> wkey]]

\* while m_a.len() > 1
TippContinues(s) == ~s.panicked /\ Len(s.m_a) > 1

\* After the loop: (m_a[0], m_b[0]) and (vkey.first(), wkey.first()); taking
\* the first element of an empty vector panics.
TippFinals(s) ==
    IF s.panicked \/ s.m_a = <<>> \/ s.m_b = <<>> \/ s.vkey = <<>> \/ s.wkey = <<>>
    THEN [s EXCEPT !.panicked = TRUE, !.pc = "done"]
    ELSE [s EXCEPT !.pc = "done"]

RECURSIVE TippLoop(_)
TippLoop(s) ==
    IF TippContinues(s) THEN The({TippLoop(next) : next \in {TippRound(s)}})
    ELSE TippFinals(s)

\* gipa_tipp(A, B, vkey, wkey): the state it ends in, which holds the proof
\* (comms, z_vec, the finals m_a[0], m_b[0], vkey[0], wkey[0]) and the
\* challenges.
gipa_tipp(A, B, vkey, wkey) ==
    The({TippLoop(s) : s \in {TippStart(A, B, vkey, wkey)}})

\* The items a round of gipa_mipp serializes after the counter; TU is the
\* pair the round pushes to comms.
MippHashItems(transcript, TU, Z_l, Z_r) ==
    <<transcript, TU[1], TU[2], Z_r, Z_l>>

\* The splits of a round of gipa_mipp panic when a half is out of range.
MippSplitFails(s) ==
    LET split == GipaSplit(Len(s.m_c))
    IN split > Len(s.m_r) \/ ~CanSplit(s.vkey, split)

\* The values of the four closures of rayon::join before they have run.
NoMippCross == [Z_r |-> NoFr, Z_l |-> NoFr, TU_r |-> NoFr, TU_l |-> NoFr]

\* Lines 340-356: the closure of rayon::join that computes t, over the halves
\* of the round.
MippCross(s, t) ==
    LET split == GipaSplit(Len(s.m_c))
        C_left == Left(s.m_c, split)
        C_right == Right(s.m_c, split)
        r_left == Left(s.m_r, split)
        r_right == Right(s.m_r, split)
        vk_left == Left(s.vkey, split)
        vk_right == Right(s.vkey, split)
    IN CASE t = "Z_r" -> multiexponentiation(C_left, r_right)
         [] t = "Z_l" -> multiexponentiation(C_right, r_left)
         [] t = "TU_r" -> commit_single_g1(vk_right, C_left)
         [] t = "TU_l" -> commit_single_g1(vk_left, C_right)

\* Lines 358-424: the challenge of the round and the folds, from the values
\* x that rayon::join returned.
MippFold(s, x) ==
    LET split == GipaSplit(Len(s.m_c))
        C_left == Left(s.m_c, split)
        C_right == Right(s.m_c, split)
        r_left == Left(s.m_r, split)
        r_right == Right(s.m_r, split)
        vk_left == Left(s.vkey, split)
        vk_right == Right(s.vkey, split)
        TU == <<x.TU_l, x.TU_r>>
        transcript == LastOrZero(s.challenges)
    IN The({[s EXCEPT
               !.m_c = resize(FoldLeft(C_left, C_right, ch.c) \o C_right,
                              Len(C_left), zero),
               !.m_r = resize(FoldLeft(r_left, r_right, ch.c_inv) \o r_right,
                              Len(r_left), zero),
               !.vkey = compress(vk_left, vk_right, ch.c_inv),
               !.comms = Append(s.comms, TU),
               !.z_vec = Append(s.z_vec, <<x.Z_l, x.Z_r>>),
               !.challenges = Append(s.challenges, ch.c),
               !.hash_inputs = Append(s.hash_inputs, ch.hash_input)]
            : ch \in {ChallengeLoop(0, MippHashItems(transcript, TU, x.Z_l,
                                                     x.Z_r))}})

\* One iteration of the while loop of gipa_mipp.
MippRound(s) ==
    IF MippSplitFails(s)
    THEN [s EXCEPT !.panicked = TRUE]
    ELSE The({MippFold(s, x)
              : x \in {[Z_r |-> MippCross(s, "Z_r"), Z_l |-> MippCross(s, "Z_l"),
                        TU_r |-> MippCross(s, "TU_r"),
                        TU_l |-> MippCross(s, "TU_l")]}})

\* The locals of gipa_mipp before its loop.
MippStart(C, r, vkey) ==
    [pc |-> "loop", n |-> Len(C), m_c |-> C, m_r |-> r, vkey |-> vkey,
     comms |-> <<>>, z_vec |-> <<>>, challenges |-> <<>>,
     hash_inputs |-> <<>>, panicked |-> FALSE, cross |-> NoMippCross,
     tasks |-> {}]

\* while m_c.len() > 1  (the source writes m_a, a name gipa_mipp lacks)
MippContinues(s) == ~s.panicked /\ Len(s.m_c) > 1

\* After the loop: (m_c[0], m_r[0]) and vkey.first().
MippFinals(s) ==
    IF s.panicked \/ s.m_c = <<>> \/ s.m_r = <<>> \/ s.vkey = <<>>
    THEN [s EXCEPT !.panicked = TRUE, !.pc = "done"]
    ELSE [s EXCEPT !.pc = "done"]

RECURSIVE MippLoop(_)
MippLoop(s) ==
    IF MippContinues(s) THEN The({MippLoop(next) : next \in {MippRound(s)}})
    ELSE MippFinals(s)

gipa_mipp(C, r, vkey) == The({MippLoop(s) : s \in {MippStart(C, r, vkey)}})

TippOff == [pc |-> "off", n |-> 0, m_a |-> <<>>, m_b |-> <<>>, vkey |-> <<>>,
            wkey |-> <<>>, comms |-> <<>>, z_vec |-> <<>>, challenges |-> <<>>,
            hash_inputs |-> <<>>, panicked |-> FALSE, cross |-> NoTippCross,
            tasks |-> {},
            args |-> [A |-> <<>>, B |-> <<>>, vkey |-> <<>>, wkey |-> <<>>]]

MippOff == [pc |-> "off", n |-> 0, m_c |-> <<>>, m_r |-> <<>>, vkey |-> <<>>,
            comms |-> <<>>, z_vec |-> <<>>, challenges |-> <<>>,
            hash_inputs |-> <<>>, panicked |-> FALSE, cross |-> NoMippCross,
            tasks |-> {}]

GipaTippRound ==
    /\ tipp.pc = "loop"
    /\ TippContinues(tipp)
    /\ tipp' = TippRound(tipp)
    /\ UNCHANGED <<gpuVars, poly, agg, mipp>>

GipaTippReturn ==
    /\ tipp.pc = "loop"
    /\ ~TippContinues(tipp)
    /\ tipp' = TippFinals(tipp)
    /\ UNCHANGED <<gpuVars, poly, agg, mipp>>

GipaMippRound ==
    /\ mipp.pc = "loop"
    /\ MippContinues(mipp)
    /\ mipp' = MippRound(mipp)
    /\ UNCHANGED <<gpuVars, poly, agg, tipp>>

GipaMippReturn ==
    /\ mipp.pc = "loop"
    /\ ~MippContinues(mipp)
    /\ mipp' = MippFinals(mipp)
    /\ UNCHANGED <<gpuVars, poly, agg, tipp>>

\* Lines 215-228, one closure of rayon::join in a round of gipa_tipp: it runs
\* after the splits, whichever of the other closures have run.
ParTippCross ==
    /\ tipp.pc = "loop"
    /\ TippContinues(tipp)
    /\ ~TippSplitFails(tipp)
    /\ \E t \in DOMAIN NoTippCross \ tipp.tasks :
         tipp' = [tipp EXCEPT !.cross[t] = TippCross(tipp, t),
                              !.tasks = tipp.tasks \cup {t}]
    /\ UNCHANGED <<gpuVars, poly, agg, mipp>>

\* The rest of the round, once rayon::join has returned the four values; or
\* the panic of the splits.
ParTippJoin ==
    /\ tipp.pc = "loop"
    /\ TippContinues(tipp)
    /\ IF TippSplitFails(tipp)
       THEN tipp' = [tipp EXCEPT !.panicked = TRUE]
       ELSE /\ tipp.tasks = DOMAIN NoTippCross
            /\ tipp' = [TippFold(tipp, tipp.cross) EXCEPT !.cross = NoTippCross,
                                                         !.tasks = {}]
    /\ UNCHANGED <<gpuVars, poly, agg, mipp>>

\* Lines 340-356, one closure of rayon::join in a round of gipa_mipp.
ParMippCross ==
    /\ mipp.pc = "loop"
    /\ MippContinues(mipp)
    /\ ~MippSplitFails(mipp)
    /\ \E t \in DOMAIN NoMippCross \ mipp.tasks :
         mipp' = [mipp EXCEPT !.cross[t] = MippCross(mipp, t),
                              !.tasks = mipp.tasks \cup {t}]
    /\ UNCHANGED <<gpuVars, poly, agg, tipp>>

\* The rest of the round of gipa_mipp, or the panic of its splits.
ParMippJoin ==
    /\ mipp.pc = "loop"
    /\ MippContinues(mipp)
    /\ IF MippSplitFails(mipp)
       THEN mipp' = [mipp EXCEPT !.panicked = TRUE]
       ELSE /\ mipp.tasks = DOMAIN NoMippCross
            /\ mipp' = [MippFold(mipp, mipp.cross) EXCEPT !.cross = NoMippCross,
                                                         !.tasks = {}]
    /\ UNCHANGED <<gpuVars, poly, agg, tipp>>


(***************************************************************************)
(*     prove.rs: the KZG opening, prove_tipp, prove_mipp, aggregate_proofs *)
(***************************************************************************)

\* The largest number of proofs in a batch.
MaxProofs == 4

\* A challenge loop with full-width reduction (the r of aggregate_proofs,
\* the KZG points of prove_tipp and prove_mipp), from counter_nonce on: the
\* first counter whose digest from_random_bytes maps into Fr.
RECURSIVE FullWidthLoop(_, _)
FullWidthLoop(counter_nonce, items) ==
    The({IF candidate # NoFr
         THEN [value |-> candidate, counter_nonce |-> counter_nonce]
         ELSE FullWidthLoop(counter_nonce + 1, items)
         : candidate \in {from_random_bytes(Sha256(<<counter_nonce>> \o items))}})

Reverse(s) == [i \in 1..Len(s) |-> s[Len(s) + 1 - i]]

\* The quotient of DensePolynomial division of the polynomial with the
\* coefficients num by (X - z); the remainder is dropped.
RECURSIVE DivideByLinear(_, _)
DivideByLinear(num, z) ==
    IF Len(num) <= 1 THEN <<>>
    ELSE The({<<add(num[2], mul(z, IF higher = <<>> THEN zero ELSE higher[1]))>>
              \o higher
              : higher \in {DivideByLinear(Right(num, 1), z)}})

\* par_multiscalar over len terms: the sum of getter(i) * table[i].
RECURSIVE par_multiscalar(_, _, _)
par_multiscalar(coeffs, len, table) ==
    IF len = 0 THEN zero
    ELSE add(par_multiscalar(coeffs, len - 1, table),
             mul(IF len > Len(coeffs) THEN zero ELSE coeffs[len],
                 IF len > Len(table) THEN zero ELSE table[len]))

\* prove_commitment_key_kzg_opening, lines 463-473: the coefficients of
\* (f_v(X) - f_v(z)) / (X - z).
quotient_polynomial(vkey_poly, vkey_poly_z, kzg_challenge) ==
    DivideByLinear([vkey_poly EXCEPT ![1] = add(vkey_poly[1], negate(vkey_poly_z))],
                   kzg_challenge)

KZGOpening(status, opening, transcript, r_shift) ==
    [status |-> status, opening |-> opening,
     transcript |-> transcript, r_shift |-> r_shift]

\* prove_commitment_key_kzg_opening, lines 453-473: the coefficients of the
\* quotient polynomial, or the error it returns before them.
KzgQuotient(srs_powers_len, transcript, r_shift, kzg_challenge) ==
    The({IF srs_powers_len # Len(vkey_poly)
         THEN [status |-> "MalformedSrs", coeffs |-> <<>>]
         ELSE IF vkey_poly_z = PanicFr
         THEN [status |-> "panic", coeffs |-> <<>>]
         ELSE [status |-> "Ok",
               coeffs |-> quotient_polynomial(vkey_poly, vkey_poly_z, kzg_challenge)]
         : vkey_poly \in {polynomial_coefficients_from_transcript(transcript, r_shift)},
           vkey_poly_z \in {polynomial_evaluation_product_form_from_transcript(
                               transcript, kzg_challenge, r_shift)}})

\* A mutation of KzgMsm: the two closures share an accumulator, so the second
\* closure to run sees what the first has written.
KzgMsmShared(t, quotient_polynomial_coeffs, srs_powers_len, srs_powers_alpha_table, srs_powers_beta_table) ==
    IF poly.opening[3 - t] = NoFr
    THEN par_multiscalar(quotient_polynomial_coeffs, srs_powers_len,
                         srs_powers_alpha_table)
    ELSE add(poly.opening[3 - t], one)

\* Lines 485-494: the t-th closure of rayon::join.  Both multiscalar products
\* are taken over the alpha table.
KzgMsm(t, quotient_polynomial_coeffs, srs_powers_len, srs_powers_alpha_table, srs_powers_beta_table) ==
    CASE t = 1 -> par_multiscalar(quotient_polynomial_coeffs, srs_powers_len,
                                  srs_powers_alpha_table)
      [] t = 2 -> par_multiscalar(quotient_polynomial_coeffs, srs_powers_len,
                                  srs_powers_alpha_table)

prove_commitment_key_kzg_opening(srs_powers_alpha_table, srs_powers_beta_table, srs_powers_len, transcript, r_shift, kzg_challenge) ==
    The({IF q.status # "Ok"
         THEN KZGOpening(q.status, <<NoFr, NoFr>>, transcript, r_shift)
         ELSE KZGOpening("Ok",
                         <<KzgMsm(1, q.coeffs, srs_powers_len,
                                  srs_powers_alpha_table, srs_powers_beta_table),
                           KzgMsm(2, q.coeffs, srs_powers_len,
                                  srs_powers_alpha_table, srs_powers_beta_table)>>,
                         transcript, r_shift)
         : q \in {KzgQuotient(srs_powers_len, transcript, r_shift, kzg_challenge)}})

NoOpening == KZGOpening("none", <<NoFr, NoFr>>, <<>>, NoFr)

\* The tables of the powers of alpha and of beta in one group, srs_powers_len
\* entries each, as the SRS holds them for G2.
AlphaTable(srs_powers_len) == structured_scalar_power(srs_powers_len, 3)
BetaTable(srs_powers_len) == structured_scalar_power(srs_powers_len, 5)

\* prove_commitment_key_kzg_opening applied to the transcript, the shift and
\* the challenge point of poly.
PolyOpening ==
    /\ poly.pc = "done"
    /\ \E o \in {prove_commitment_key_kzg_opening(
                     AlphaTable(poly.srs_powers_len), BetaTable(poly.srs_powers_len),
                     poly.srs_powers_len, poly.transcript, poly.r_shift, poly.z)} :
          poly' = [poly EXCEPT !.opening = o.opening, !.opening_status = o.status,
                               !.pc = "opened"]
    /\ UNCHANGED <<gpuVars, tipp, mipp, agg>>

\* Lines 485-494, one closure of rayon::join: it runs once the quotient
\* polynomial is there, whether or not the other closure has run.
ParKzgMsm ==
    /\ poly.pc = "done"
    /\ \E t \in {1, 2} \ poly.tasks :
         \E q \in {KzgQuotient(poly.srs_powers_len, poly.transcript, poly.r_shift,
                                poly.z)} :
            /\ q.status = "Ok"
            /\ poly' = [poly EXCEPT
                          !.opening[t] = KzgMsm(t, q.coeffs, poly.srs_powers_len,
                                                AlphaTable(poly.srs_powers_len),
                                                BetaTable(poly.srs_powers_len)),
                          !.tasks = poly.tasks \cup {t}]
    /\ UNCHANGED <<gpuVars, tipp, mipp, agg>>

\* prove_commitment_key_kzg_opening returns: with the error found before
\* rayon::join, or when both closures have returned.
ParKzgJoin ==
    /\ poly.pc = "done"
    /\ \E q \in {KzgQuotient(poly.srs_powers_len, poly.transcript, poly.r_shift,
                             poly.z)} :
         /\ q.status # "Ok" \/ poly.tasks = {1, 2}
         /\ poly' = [poly EXCEPT !.opening_status = q.status, !.pc = "opened",
                                 !.tasks = {}]
    /\ UNCHANGED <<gpuVars, tipp, mipp, agg>>

\* The SRS for batches of n proofs: the commitment keys and the tables of
\* the alpha and beta powers in G1 (g) and G2 (h).
SRS(n, vkey, wkey) ==
    [n |-> n, vkey |-> vkey, wkey |-> wkey,
     h_alpha_powers_table |-> AlphaTable(n),
     h_beta_powers_table |-> BetaTable(n),
     g_alpha_powers_table |-> structured_scalar_power(n, 2),
     g_beta_powers_table |-> structured_scalar_power(n, 4)]

\* Vec of inverse().unwrap(): PanicFr marks the element whose unwrap panics.
InverseAll(v) ==
    [i \in 1..Len(v) |-> IF inverse(v[i]) = NoFr THEN PanicFr ELSE inverse(v[i])]

Panicked(v) == \E i \in 1..Len(v) : v[i] = PanicFr

ProveResult(status, gipa, z, vkey_opening, wkey_opening) ==
    [status |-> status, gipa |-> gipa, z |-> z,
     vkey_opening |-> vkey_opening, wkey_opening |-> wkey_opening]

\* prove_commitment_key_kzg_opening returns Err(MalformedSrs) (line 458) into
\* a field of the proof: it is read as the error of the prove_* call.
OpeningStatus(vkey_opening, wkey_opening) ==
    IF "panic" \in {vkey_opening.status, wkey_opening.status} THEN "panic"
    ELSE IF "MalformedSrs" \in {vkey_opening.status, wkey_opening.status}
      THEN "MalformedSrs"
    ELSE "Ok"

\* Lines 131-134 and 162-164: the transcript prove_tipp hands to the opening
\* of vkey is transcript_inverse, in the order of the challenges.
VkeyOpeningTranscript(challenges) == InverseAll(challenges)

\* Lines 130, 157 and 171-173: the transcript prove_tipp hands to the opening
\* of wkey is the reversed transcript.
WkeyOpeningTranscript(challenges) == Reverse(challenges)

\* prove_tipp(srs, A, B, vkey, wkey, r_shift).  The opening of vkey is given
\* transcript_inverse as it is and r_inverse, the opening of wkey the
\* reversed transcript and one.
prove_tipp(srs, A, B, vkey, wkey, r_shift) ==
    IF ~is_power_of_two(Len(A))
    THEN ProveResult("MalformedProofs", TippOff, NoFr, NoOpening, NoOpening)
    ELSE
    The({LET transcript == proof.challenges
             transcript_inverse == VkeyOpeningTranscript(transcript)
             r_inverse == inverse(r_shift)
         IN IF \/ proof.panicked
               \/ Panicked(transcript_inverse)
               \/ r_inverse = NoFr
               \/ transcript = <<>>      \* transcript.first().unwrap()
            THEN ProveResult("panic", proof, NoFr, NoOpening, NoOpening)
            ELSE
            The({The({ProveResult(OpeningStatus(vkey_opening, wkey_opening),
                                  proof, z, vkey_opening, wkey_opening)
                      : vkey_opening \in
                          {prove_commitment_key_kzg_opening(
                               srs.h_alpha_powers_table, srs.h_beta_powers_table,
                               srs.n, transcript_inverse, r_inverse, z)},
                        wkey_opening \in
                          {prove_commitment_key_kzg_opening(
                               srs.g_alpha_powers_table, srs.g_beta_powers_table,
                               Len(srs.g_beta_powers_table),
                               WkeyOpeningTranscript(transcript), one, z)}})
                 : z \in {FullWidthLoop(0, <<transcript[1], proof.vkey[1],
                                             proof.wkey[1]>>).value}})
         : proof \in {gipa_tipp(A, B, vkey, wkey)}})

\* prove_mipp(srs, C, r, vkey).
prove_mipp(srs, C, r, vkey) ==
    IF ~is_power_of_two(Len(C))
    THEN ProveResult("MalformedProofs", MippOff, NoFr, NoOpening, NoOpening)
    ELSE
    The({LET transcript == proof.challenges
             transcript_inverse == InverseAll(transcript)
         IN IF \/ proof.panicked
               \/ Panicked(transcript_inverse)
               \/ transcript = <<>>      \* transcript.first().unwrap()
            THEN ProveResult("panic", proof, NoFr, NoOpening, NoOpening)
            ELSE
            The({The({ProveResult(vkey_opening.status, proof, c, vkey_opening,
                                  NoOpening)
                      : vkey_opening \in
                          {prove_commitment_key_kzg_opening(
                               srs.h_alpha_powers_table, srs.h_beta_powers_table,
                               Len(srs.h_beta_powers_table), transcript_inverse,
                               one, c)}})
                 : c \in {FullWidthLoop(0, <<transcript[1], proof.vkey[1]>>).value}})
         : proof \in {gipa_mipp(C, r, vkey)}})

NoProof == ProveResult("none", TippOff, NoFr, NoOpening, NoOpening)

AggOff ==
    [pc |-> "off", srs |-> SRS(0, <<>>, <<>>), proofs |-> <<>>,
     A |-> <<>>, B |-> <<>>, C |-> <<>>,
     com_ab |-> <<NoFr, NoFr>>, com_c |-> NoFr,
     counter_nonce |-> 0, r |-> NoFr, r_vec |-> <<>>, r_inv |-> <<>>,
     A_r |-> <<>>, vkey_r_inv |-> <<>>,
     tipa_proof_ab |-> NoProof, tipa_proof_c |-> NoProof,
     ip_ab |-> NoFr, agg_c |-> NoFr,
     computed_com_ab |-> <<NoFr, NoFr>>, result |-> "none", tasks |-> {}]

\* aggregate_proofs is called with an SRS and a sequence of proofs.
AggStart(srs, proofs) == [AggOff EXCEPT !.pc = "check", !.srs = srs, !.proofs = proofs]

\* Lines 22-26: the commitment keys are checked against the batch size.
CheckSrs(a) ==
    LET vkey == a.srs.vkey
        wkey == a.srs.wkey
    IN IF correct_len(vkey, Len(a.proofs)) \/ correct_len(wkey, Len(a.proofs))
       THEN [a EXCEPT !.result = "MalformedSrs", !.pc = "done"]
       ELSE [a EXCEPT !.pc = "commit"]

\* The tasks of the par! block that aggregate_proofs runs at a.pc, in program
\* order: lines 31-43, lines 69-78 and lines 80-94.
FanOut(a) ==
    CASE a.pc = "commit" -> <<"com_ab", "com_c">>
      [] a.pc = "scale" -> <<"A_r", "vkey_r_inv">>
      [] a.pc = "prove" -> <<"tipa_proof_ab", "tipa_proof_c", "ip_ab", "agg_c">>
      [] OTHER -> <<>>

\* One task of a par! block: what it reads and the locals it binds.
RunTask(a, t) ==
    CASE t = "com_ab" ->
           LET A == [i \in 1..Len(a.proofs) |-> a.proofs[i].a]
               B == [i \in 1..Len(a.proofs) |-> a.proofs[i].b]
           IN [a EXCEPT !.A = A, !.B = B,
                        !.com_ab = commit_pair(a.srs.vkey, a.srs.wkey, A, B)]
      [] t = "com_c" ->
           LET C == [i \in 1..Len(a.proofs) |-> a.proofs[i].c]
           IN [a EXCEPT !.C = C, !.com_c = commit_single_g1(a.srs.vkey, C)]
      [] t = "A_r" ->
           [a EXCEPT !.A_r = [i \in 1..Min(Len(a.A), Len(a.r_vec)) |->
                                 mul(a.A[i], a.r_vec[i])]]
      [] t = "vkey_r_inv" ->
           [a EXCEPT !.vkey_r_inv = scale(a.srs.vkey, a.r_inv)]
      [] t = "tipa_proof_ab" ->
           The({[a EXCEPT !.tipa_proof_ab = tipa_proof_ab]
                : tipa_proof_ab \in {prove_tipp(a.srs, a.A_r, a.B, a.vkey_r_inv,
                                                a.srs.wkey, a.r)}})
      [] t = "tipa_proof_c" ->
           The({[a EXCEPT !.tipa_proof_c = tipa_proof_c]
                : tipa_proof_c \in {prove_mipp(a.srs, a.C, a.r_vec, a.srs.vkey)}})
      [] t = "ip_ab" -> [a EXCEPT !.ip_ab = pairing(a.A_r, a.B)]
      [] t = "agg_c" -> [a EXCEPT !.agg_c = multiexponentiation(a.C, a.r_vec)]

\* The end of a par! block, reached when all its tasks have returned; a
\* panic of a task is the panic of aggregate_proofs.
Join(a) ==
    CASE a.pc = "commit" -> [a EXCEPT !.counter_nonce = 0, !.pc = "derive_r"]
      [] a.pc = "scale" -> [a EXCEPT !.pc = "prove"]
      [] a.pc = "prove" ->
           IF "panic" \in {a.tipa_proof_ab.status, a.tipa_proof_c.status}
           THEN [a EXCEPT !.result = "panic", !.pc = "done"]
           ELSE [a EXCEPT !.pc = "assert"]

\* The tasks ts run one after the other.
RECURSIVE RunTasks(_, _)
RunTasks(a, ts) ==
    IF ts = <<>> THEN a
    ELSE The({RunTasks(next, Tail(ts)) : next \in {RunTask(a, Head(ts))}})

\* A par! block whose tasks run in program order.
SeqBlock(a) == The({Join(done) : done \in {RunTasks(a, FanOut(a))}})

\* Lines 49-61, one iteration of the loop that derives r: the hash input is
\* the counter, com_ab (both components) and com_c.
DeriveR(a) ==
    LET hash_input == <<a.counter_nonce, a.com_ab[1], a.com_ab[2], a.com_c>>
        candidate == from_random_bytes(Sha256(hash_input))
    IN IF candidate # NoFr
       THEN [a EXCEPT !.r = candidate, !.pc = "rescale"]
       ELSE [a EXCEPT !.counter_nonce = a.counter_nonce + 1]

\* Lines 63-67: r_vec and r_inv, every inverse unwrapped.
Powers(a) ==
    LET r_vec == structured_scalar_power(Len(a.proofs), a.r)
        r_inv == InverseAll(r_vec)
    IN IF Panicked(r_inv)
       THEN [a EXCEPT !.r_vec = r_vec, !.result = "panic", !.pc = "done"]
       ELSE [a EXCEPT !.r_vec = r_vec, !.r_inv = r_inv, !.pc = "scale"]

\* Lines 98-100: the commitment is computed again under vkey_r_inv, over A
\* and B, and asserted equal to com_ab.
AssertCommitment(a) ==
    LET computed_com_ab == commit_pair(a.vkey_r_inv, a.srs.wkey, a.A, a.B)
    IN IF a.com_ab = computed_com_ab
       THEN [a EXCEPT !.computed_com_ab = computed_com_ab, !.pc = "return"]
       ELSE [a EXCEPT !.computed_com_ab = computed_com_ab,
                      !.result = "panic", !.pc = "done"]

\* Lines 102-109: Ok(AggregateProof {..}), or the error of tipa_proof_ab?
\* or of tipa_proof_c?.
Return(a) ==
    [a EXCEPT !.result = IF a.tipa_proof_ab.status # "Ok"
                           THEN a.tipa_proof_ab.status
                         ELSE IF a.tipa_proof_c.status # "Ok"
                           THEN a.tipa_proof_c.status
                         ELSE "Ok",
              !.pc = "done"]

\* aggregate_proofs from the locals a on, every par! block in program order.
RECURSIVE AggLoop(_)
AggLoop(a) ==
    IF a.pc = "done" THEN a
    ELSE The({AggLoop(next)
              : next \in {CASE a.pc = "check" -> CheckSrs(a)
                            [] a.pc = "derive_r" -> DeriveR(a)
                            [] a.pc = "rescale" -> Powers(a)
                            [] a.pc = "assert" -> AssertCommitment(a)
                            [] a.pc = "return" -> Return(a)
                            [] OTHER -> SeqBlock(a)}})

\* aggregate_proofs(ip_srs, proofs): the state it returns in, which holds the
\* result and every field of the AggregateProof.
aggregate_proofs(ip_srs, proofs) ==
    The({AggLoop(a) : a \in {AggStart(ip_srs, proofs)}})

AggCheckSrs ==
    /\ agg.pc = "check"
    /\ agg' = CheckSrs(agg)
    /\ UNCHANGED <<gpuVars, poly, tipp, mipp>>

\* Lines 31-43: commit to A, B and C.
AggCommit ==
    /\ agg.pc = "commit"
    /\ agg' = SeqBlock(agg)
    /\ UNCHANGED <<gpuVars, poly, tipp, mipp>>

AggDeriveR ==
    /\ agg.pc = "derive_r"
    /\ agg' = DeriveR(agg)
    /\ UNCHANGED <<gpuVars, poly, tipp, mipp>>

\* Lines 63-78: r_vec, r_inv, A_r and vkey_r_inv.
AggRescale ==
    /\ agg.pc = "rescale"
    /\ agg' = The({IF a.pc = "done" THEN a ELSE SeqBlock(a) : a \in {Powers(agg)}})
    /\ UNCHANGED <<gpuVars, poly, tipp, mipp>>

\* Lines 80-96: prove_tipp, prove_mipp, ip_ab and agg_c.
AggProve ==
    /\ agg.pc = "prove"
    /\ agg' = SeqBlock(agg)
    /\ UNCHANGED <<gpuVars, poly, tipp, mipp>>

AggAssert ==
    /\ agg.pc = "assert"
    /\ agg' = AssertCommitment(agg)
    /\ UNCHANGED <<gpuVars, poly, tipp, mipp>>

AggReturn ==
    /\ agg.pc = "return"
    /\ agg' = Return(agg)
    /\ UNCHANGED <<gpuVars, poly, tipp, mipp>>

\* The task names of a par! block.
TaskSet(a) == {FanOut(a)[i] : i \in 1..Len(FanOut(a))}

\* One task of the par! block aggregate_proofs is in, run whichever of the
\* other tasks of the block have returned.
ParTask ==
    /\ \E t \in TaskSet(agg) \ agg.tasks :
         agg' = [RunTask(agg, t) EXCEPT !.tasks = agg.tasks \cup {t}]
    /\ UNCHANGED <<gpuVars, poly, tipp, mipp>>

\* The par! block ends when all its tasks have returned.
ParJoin ==
    /\ TaskSet(agg) # {}
    /\ agg.tasks = TaskSet(agg)
    /\ agg' = [Join(agg) EXCEPT !.tasks = {}]
    /\ UNCHANGED <<gpuVars, poly, tipp, mipp>>

\* Lines 63-67, before the par! block of lines 69-78.
ParPowers ==
    /\ agg.pc = "rescale"
    /\ agg' = Powers(agg)
    /\ UNCHANGED <<gpuVars, poly, tipp, mipp>>

ProverOff == poly = PolyOff /\ tipp = TippOff /\ mipp = MippOff /\ agg = AggOff

(***************************************************************************)
(*                         src/gpu/locks.rs                                *)
(***************************************************************************)

\* Number of processes that share the two lock files.
NumProcs == 2

Procs == 1..NumProcs

None == "None"

\* A mutation of lock_exclusive: a shared lock never waits for another holder.
lock_shared(holders) == TRUE

\* File::lock_exclusive (flock LOCK_EX): returns once no other open file
\* description holds a lock on the file.  Every call in locks.rs opens the
\* file anew (File::create), so a lock held by the caller's own earlier
\* handle blocks it like anybody else's.
lock_exclusive(holders) == holders = {}

\* A mutation of should_break: the caller's priority is not looked at.
should_break_contended(prio) == priority_file # {}

\* PriorityLock::should_break: a priority caller never breaks; a normal one
\* tries a shared lock on a fresh handle and breaks when it is contended.
should_break(prio) ==
    IF prio THEN FALSE
    ELSE priority_file # {}

\* create_fft_kernel / create_multiexp_kernel, the Ok case: the kernel is
\* created with an abort function only when priority is true, and that
\* function is  || PriorityLock::should_break(true).
create_kernel(prio) == IF prio THEN "KernelWithAbort" ELSE "Kernel"

\* What the abort function of p's kernel returns when the kernel polls it.
\* A kernel made by create(&devices) has no abort function and is never
\* aborted.
KernelAbort(p) ==
    /\ kernel[p] = "KernelWithAbort"
    /\ should_break(TRUE)

\* The results a closure can hand back to with().  The closure of
\* multiexp.rs runs the kernel and converts its error: it reports GpuTaken
\* only when the kernel was aborted.  with() itself accepts any FnMut
\* returning a GpuResult ("generic").
Outcomes(p) ==
    {"Ok", "Failure"} \cup
    (IF f[p] = "generic" \/ KernelAbort(p) THEN {"GpuTaken"} ELSE {})

\* LockedKernel::new(priority) for every process; both lock files are free.
InitGpu ==
    /\ pc = [p \in Procs |-> "idle"]
    /\ priority \in [Procs -> BOOLEAN]
    /\ kernel = [p \in Procs |-> None]
    /\ taken_kernel = [p \in Procs |-> None]
    /\ gpu_lock = [p \in Procs |-> FALSE]
    /\ prio_lock = [p \in Procs |-> FALSE]
    /\ f = [p \in Procs |-> None]
    /\ result = [p \in Procs |-> None]
    /\ gpu_file = {}
    /\ priority_file = {}
    /\ BELLMAN_NO_GPU \in [Procs -> BOOLEAN]
    /\ multiexp_pc = [p \in Procs |-> "idle"]
    /\ result_cpu = [p \in Procs |-> None]
    /\ multiexp_result = [p \in Procs |-> None]
    /\ ProverOff

\* PriorityLock::lock(), called by a high-priority process before it uses
\* the GPU: blocks until the exclusive lock is granted.
PriorityLock_lock(p) ==
    /\ pc[p] = "idle"
    /\ priority[p]
    /\ ~prio_lock[p]
    /\ lock_exclusive(priority_file)
    /\ priority_file' = priority_file \cup {<<p, "lock">>}
    /\ prio_lock' = [prio_lock EXCEPT ![p] = TRUE]
    /\ UNCHANGED <<pc, priority, taken_kernel, kernel, gpu_lock, f, result, gpu_file>>
    /\ UNCHANGED callerVars
    /\ UNCHANGED proverVars

\* impl Drop for PriorityLock.
PriorityLock_drop(p) ==
    /\ pc[p] = "idle"
    /\ prio_lock[p]
    /\ priority_file' = priority_file \ {<<p, "lock">>}
    /\ prio_lock' = [prio_lock EXCEPT ![p] = FALSE]
    /\ UNCHANGED <<pc, priority, taken_kernel, kernel, gpu_lock, f, result, gpu_file>>
    /\ UNCHANGED callerVars
    /\ UNCHANGED proverVars

\* A call of with() is made by multiexp(), once, or by any other caller
\* that is not inside multiexp().
WithCalled(p) ==
    /\ pc[p] = "idle"
    /\ multiexp_pc[p] \in {"idle", "with"}
    /\ multiexp_pc[p] = "with" => result[p] = None

\* A mutation of gpu_disabled: the environment is never looked at.
gpu_never_disabled(p) == FALSE

\* with(), line 203:  std::env::var("BELLMAN_NO_GPU").is_ok().
gpu_disabled(p) == BELLMAN_NO_GPU[p]

\* with(), BELLMAN_NO_GPU set: Err(GpuDisabled) at once.
WithDisabled(p) ==
    /\ WithCalled(p)
    /\ gpu_disabled(p)
    /\ result' = [result EXCEPT ![p] = "GpuDisabled"]
    /\ UNCHANGED <<pc, priority, taken_kernel, kernel, gpu_lock, prio_lock, f,
                   gpu_file, priority_file>>
    /\ UNCHANGED callerVars
    /\ UNCHANGED proverVars

\* with(), BELLMAN_NO_GPU not set: remember the closure and enter init().
WithStart(p) ==
    /\ WithCalled(p)
    /\ ~gpu_disabled(p)
    /\ f' = [f EXCEPT ![p] = IF multiexp_pc[p] = "with" THEN "multiexp" ELSE "generic"]
    /\ result' = [result EXCEPT ![p] = None]
    /\ pc' = [pc EXCEPT ![p] = "init"]
    /\ UNCHANGED <<priority, taken_kernel, kernel, gpu_lock, prio_lock,
                   gpu_file, priority_file>>
    /\ UNCHANGED callerVars
    /\ UNCHANGED proverVars

\* init(), kernel is Some: nothing to do.
InitSkip(p) ==
    /\ pc[p] = "init"
    /\ kernel[p] # None
    /\ pc' = [pc EXCEPT ![p] = "loop"]
    /\ UNCHANGED <<priority, taken_kernel, kernel, gpu_lock, prio_lock, f, result,
                   gpu_file, priority_file>>
    /\ UNCHANGED callerVars
    /\ UNCHANGED proverVars

\* init() -> PriorityLock::wait(true): returns at once.
WaitPriority(p) ==
    /\ pc[p] = "init"
    /\ kernel[p] = None
    /\ priority[p]
    /\ pc' = [pc EXCEPT ![p] = "lock"]
    /\ UNCHANGED <<priority, taken_kernel, kernel, gpu_lock, prio_lock, f, result,
                   gpu_file, priority_file>>
    /\ UNCHANGED callerVars
    /\ UNCHANGED proverVars

\* init() -> PriorityLock::wait(false): lock_exclusive on a fresh handle.
WaitNormal(p) ==
    /\ pc[p] = "init"
    /\ kernel[p] = None
    /\ ~priority[p]
    /\ lock_exclusive(priority_file)
    /\ priority_file' = priority_file \cup {<<p, "wait">>}
    /\ pc' = [pc EXCEPT ![p] = "wait"]
    /\ UNCHANGED <<priority, taken_kernel, kernel, gpu_lock, prio_lock, f, result, gpu_file>>
    /\ UNCHANGED callerVars
    /\ UNCHANGED proverVars

\* PriorityLock::wait(false): the temporary File is dropped, which unlocks.
WaitDrop(p) ==
    /\ pc[p] = "wait"
    /\ priority_file' = priority_file \ {<<p, "wait">>}
    /\ pc' = [pc EXCEPT ![p] = "lock"]
    /\ UNCHANGED <<priority, taken_kernel, kernel, gpu_lock, prio_lock, f, result, gpu_file>>
    /\ UNCHANGED callerVars
    /\ UNCHANGED proverVars

\* init(): self.gpu_lock = Some(GPULock::lock()).  The new lock is taken
\* before the old value of the field is dropped.
GPULock_lock(p) ==
    /\ pc[p] = "lock"
    /\ lock_exclusive(gpu_file)
    /\ gpu_file' = gpu_file \cup {p}
    /\ gpu_lock' = [gpu_lock EXCEPT ![p] = TRUE]
    /\ pc' = [pc EXCEPT ![p] = "create"]
    /\ UNCHANGED <<priority, taken_kernel, kernel, prio_lock, f, result, priority_file>>
    /\ UNCHANGED callerVars
    /\ UNCHANGED proverVars

\* init(): self.kernel = create_*_kernel(self.priority), which is Some(k)
\* or, when no kernel can be instantiated, None.
CreateKernel(p) ==
    /\ pc[p] = "create"
    /\ \E k \in {create_kernel(priority[p]), None} :
          kernel' = [kernel EXCEPT ![p] = k]
    /\ pc' = [pc EXCEPT ![p] = "loop"]
    /\ UNCHANGED <<priority, taken_kernel, gpu_lock, prio_lock, f, result,
                   gpu_file, priority_file>>
    /\ UNCHANGED callerVars
    /\ UNCHANGED proverVars

\* with(), loop top, kernel is Some: call f(k).
LoopRun(p) ==
    /\ pc[p] = "loop"
    /\ kernel[p] # None
    /\ pc' = [pc EXCEPT ![p] = "run"]
    /\ UNCHANGED <<priority, taken_kernel, kernel, gpu_lock, prio_lock, f, result,
                   gpu_file, priority_file>>
    /\ UNCHANGED callerVars
    /\ UNCHANGED proverVars

\* with(), loop top, kernel is None: Err(KernelUninitialized).
LoopUninitialized(p) ==
    /\ pc[p] = "loop"
    /\ kernel[p] = None
    /\ result' = [result EXCEPT ![p] = "KernelUninitialized"]
    /\ f' = [f EXCEPT ![p] = None]
    /\ pc' = [pc EXCEPT ![p] = "idle"]
    /\ UNCHANGED <<priority, taken_kernel, kernel, gpu_lock, prio_lock,
                   gpu_file, priority_file>>
    /\ UNCHANGED callerVars
    /\ UNCHANGED proverVars

\* with(): f(k) returned Ok(v) or Err(e), e not GpuTaken: with() returns it.
WithReturn(p) ==
    /\ pc[p] = "run"
    /\ \E o \in Outcomes(p) \ {"GpuTaken"} :
          result' = [result EXCEPT ![p] = o]
    /\ f' = [f EXCEPT ![p] = None]
    /\ pc' = [pc EXCEPT ![p] = "idle"]
    /\ UNCHANGED <<priority, taken_kernel, kernel, gpu_lock, prio_lock,
                   gpu_file, priority_file>>
    /\ UNCHANGED callerVars
    /\ UNCHANGED proverVars

\* with(): f(k) returned Err(GpuTaken): free() and init() come next.
WithGpuTaken(p) ==
    /\ pc[p] = "run"
    /\ "GpuTaken" \in Outcomes(p)
    /\ pc' = [pc EXCEPT ![p] = "free"]
    /\ UNCHANGED <<priority, taken_kernel, kernel, gpu_lock, prio_lock, f, result,
                   gpu_file, priority_file>>
    /\ UNCHANGED callerVars
    /\ UNCHANGED proverVars

\* free(), lines 190-195:  if let Some(_kernel) = self.kernel.take()  moves
\* the kernel into the local _kernel, and  self.gpu_lock.take();  drops the
\* GPULock at the end of that statement.  When there is no kernel, free()
\* does nothing.
Free(p) ==
    /\ pc[p] = "free"
    /\ kernel' = [kernel EXCEPT ![p] = None]
    /\ IF kernel[p] # None
         THEN /\ taken_kernel' = [taken_kernel EXCEPT ![p] = kernel[p]]
              /\ gpu_lock' = [gpu_lock EXCEPT ![p] = FALSE]
              /\ gpu_file' = IF gpu_lock[p] THEN gpu_file \ {p} ELSE gpu_file
              /\ pc' = [pc EXCEPT ![p] = "free_end"]
         ELSE /\ UNCHANGED <<taken_kernel, gpu_lock, gpu_file>>
              /\ pc' = [pc EXCEPT ![p] = "init"]
    /\ UNCHANGED <<priority, prio_lock, f, result, priority_file>>
    /\ UNCHANGED callerVars
    /\ UNCHANGED proverVars

\* free(), line 196: the block of the  if let  ends and _kernel is dropped.
FreeEnd(p) ==
    /\ pc[p] = "free_end"
    /\ taken_kernel' = [taken_kernel EXCEPT ![p] = None]
    /\ pc' = [pc EXCEPT ![p] = "init"]
    /\ UNCHANGED <<priority, kernel, gpu_lock, prio_lock, f, result,
                   gpu_file, priority_file>>
    /\ UNCHANGED callerVars
    /\ UNCHANGED proverVars

\* The LockedKernel goes out of scope: its kernel and its GPULock are
\* dropped (impl Drop for GPULock); the process makes a new one with new().
DropKernel(p) ==
    /\ pc[p] = "idle"
    /\ multiexp_pc[p] = "idle"
    /\ kernel[p] # None \/ gpu_lock[p]
    /\ kernel' = [kernel EXCEPT ![p] = None]
    /\ gpu_lock' = [gpu_lock EXCEPT ![p] = FALSE]
    /\ gpu_file' = IF gpu_lock[p] THEN gpu_file \ {p} ELSE gpu_file
    /\ result' = [result EXCEPT ![p] = None]
    /\ UNCHANGED <<pc, priority, taken_kernel, prio_lock, f, priority_file>>
    /\ UNCHANGED callerVars
    /\ UNCHANGED proverVars

\* A mutation of is_ok: every returned value counts as a success.
is_returned(r) == r # None

\* multiexp(), line 30:  if let Ok(p) = kern.with(..)  matches only Ok.
is_ok(r) == r = "Ok"

\* multiexp(), line 30: the call is made; kern.with(..) comes next.
Multiexp(p) ==
    /\ pc[p] = "idle"
    /\ multiexp_pc[p] = "idle"
    /\ multiexp_pc' = [multiexp_pc EXCEPT ![p] = "with"]
    /\ result' = [result EXCEPT ![p] = None]
    /\ result_cpu' = [result_cpu EXCEPT ![p] = None]
    /\ multiexp_result' = [multiexp_result EXCEPT ![p] = None]
    /\ UNCHANGED <<pc, priority, kernel, taken_kernel, gpu_lock, prio_lock, f,
                   gpu_file, priority_file, BELLMAN_NO_GPU>>
    /\ UNCHANGED proverVars

\* multiexp(), lines 30-36: with() returned Ok(p): return Waiter::done(Ok(p)).
\* The value with() returned is moved out of the temporary.
MultiexpGpu(p) ==
    /\ pc[p] = "idle"
    /\ multiexp_pc[p] = "with"
    /\ result[p] # None
    /\ is_ok(result[p])
    /\ multiexp_result' = [multiexp_result EXCEPT ![p] = "p"]
    /\ multiexp_pc' = [multiexp_pc EXCEPT ![p] = "idle"]
    /\ result' = [result EXCEPT ![p] = None]
    /\ UNCHANGED <<pc, priority, kernel, taken_kernel, gpu_lock, prio_lock, f,
                   gpu_file, priority_file, BELLMAN_NO_GPU, result_cpu>>
    /\ UNCHANGED proverVars

\* multiexp(), line 39: with() returned an Err: multiexp_cpu is started on
\* the pool and hands back a Waiter.
MultiexpCpu(p) ==
    /\ pc[p] = "idle"
    /\ multiexp_pc[p] = "with"
    /\ result[p] # None
    /\ ~is_ok(result[p])
    /\ result_cpu' = [result_cpu EXCEPT ![p] = "pending"]
    /\ multiexp_pc' = [multiexp_pc EXCEPT ![p] = "cpu"]
    /\ UNCHANGED <<pc, priority, kernel, taken_kernel, gpu_lock, prio_lock, f, result,
                   gpu_file, priority_file, BELLMAN_NO_GPU, multiexp_result>>
    /\ UNCHANGED proverVars

\* multiexp(), lines 43-46: result_cpu.wait() returns once the CPU
\* computation is done, and multiexp returns what it produced.  The Err of
\* with() was dropped at line 36.
MultiexpWait(p) ==
    /\ multiexp_pc[p] = "cpu"
    /\ result_cpu[p] = "pending"
    /\ result_cpu' = [result_cpu EXCEPT ![p] = "done"]
    /\ multiexp_result' = [multiexp_result EXCEPT ![p] = "result_cpu"]
    /\ multiexp_pc' = [multiexp_pc EXCEPT ![p] = "idle"]
    /\ result' = [result EXCEPT ![p] = None]
    /\ UNCHANGED <<pc, priority, kernel, taken_kernel, gpu_lock, prio_lock, f,
                   gpu_file, priority_file, BELLMAN_NO_GPU>>
    /\ UNCHANGED proverVars

NextGpu ==
    \E p \in Procs :
        \/ PriorityLock_lock(p)
        \/ PriorityLock_drop(p)
        \/ WithDisabled(p)
        \/ WithStart(p)
        \/ InitSkip(p)
        \/ WaitPriority(p)
        \/ WaitNormal(p)
        \/ WaitDrop(p)
        \/ GPULock_lock(p)
        \/ CreateKernel(p)
        \/ LoopRun(p)
        \/ LoopUninitialized(p)
        \/ WithReturn(p)
        \/ WithGpuTaken(p)
        \/ Free(p)
        \/ FreeEnd(p)
        \/ Multiexp(p)
        \/ MultiexpGpu(p)
        \/ MultiexpCpu(p)
        \/ MultiexpWait(p)
        \/ DropKernel(p)

(***************************************************************************)
(*                          Specifications                                 *)
(***************************************************************************)

GpuOff ==
    /\ pc = [p \in Procs |-> "idle"]
    /\ priority = [p \in Procs |-> FALSE]
    /\ kernel = [p \in Procs |-> None]
    /\ taken_kernel = [p \in Procs |-> None]
    /\ gpu_lock = [p \in Procs |-> FALSE]
    /\ prio_lock = [p \in Procs |-> FALSE]
    /\ f = [p \in Procs |-> None]
    /\ result = [p \in Procs |-> None]
    /\ gpu_file = {}
    /\ priority_file = {}
    /\ BELLMAN_NO_GPU = [p \in Procs |-> FALSE]
    /\ multiexp_pc = [p \in Procs |-> "idle"]
    /\ result_cpu = [p \in Procs |-> None]
    /\ multiexp_result = [p \in Procs |-> None]

\* The processes and the lock files.
Spec == InitGpu /\ [][NextGpu]_vars

\* Normal processes only, with the GPU enabled: LockedKernel::new(false).
InitNormal ==
    /\ InitGpu
    /\ priority = [p \in Procs |-> FALSE]
    /\ BELLMAN_NO_GPU = [p \in Procs |-> FALSE]

\* with() as multiexp() calls it: the closure runs the kernel.
MultiexpWith(p) ==
    /\ multiexp_pc[p] = "with"
    /\ WithStart(p)

\* What normal processes that call multiexp() can do.
NextNormal ==
    \E p \in Procs :
        \/ Multiexp(p)
        \/ MultiexpWith(p)
        \/ InitSkip(p)
        \/ WaitNormal(p)
        \/ WaitDrop(p)
        \/ GPULock_lock(p)
        \/ CreateKernel(p)
        \/ LoopRun(p)
        \/ LoopUninitialized(p)
        \/ WithReturn(p)
        \/ MultiexpGpu(p)
        \/ MultiexpCpu(p)
        \/ MultiexpWait(p)
        \/ DropKernel(p)

\* Fair scheduling: a process inside multiexp() that can take its next step
\* takes it, the kernel and the CPU computation terminate, and a process
\* blocked in flock gets the lock if it is free again and again.  Calling
\* multiexp() is up to the caller, who makes finitely many calls in a row and
\* then lets its LockedKernel go out of scope.
Fairness ==
    \A p \in Procs :
        /\ WF_vars(MultiexpWith(p))
        /\ WF_vars(InitSkip(p))
        /\ SF_vars(WaitNormal(p))
        /\ WF_vars(WaitDrop(p))
        /\ SF_vars(GPULock_lock(p))
        /\ WF_vars(CreateKernel(p))
        /\ WF_vars(LoopRun(p))
        /\ WF_vars(LoopUninitialized(p))
        /\ WF_vars(WithReturn(p))
        /\ WF_vars(MultiexpGpu(p))
        /\ WF_vars(MultiexpCpu(p))
        /\ WF_vars(MultiexpWait(p))
        /\ SF_vars(DropKernel(p))

\* Normal processes calling multiexp() under fair scheduling.
SpecFair == InitNormal /\ [][NextNormal]_vars /\ Fairness

\* The two polynomial functions on every transcript, z and r_shift.
InitPoly ==
    /\ GpuOff
    /\ poly \in {PolyStart(t, z, r_shift, Pow2(k)) :
                    t \in SeqsUpTo(Fr, MaxTranscript), z \in Fr, r_shift \in Fr,
                    k \in 0..MaxTranscript}
    /\ tipp = TippOff
    /\ mipp = MippOff
    /\ agg = AggOff

NextPoly == PolyCoefficients \/ PolyEvaluation \/ PolyOpening

SpecPoly == InitPoly /\ [][NextPoly]_vars

\* gipa_tipp and gipa_mipp are called on vectors of one common length 2^k
\* (as in aggregate_proofs, where both work on the same batch).
InitGipa ==
    /\ GpuOff
    /\ poly = PolyOff
    /\ agg = AggOff
    /\ \E k \in 0..MaxLog :
         \E A \in Vectors(Pow2(k)), B \in Vectors(Pow2(k)),
            vkey \in Vectors(Pow2(k)), wkey \in Vectors(Pow2(k)) :
              /\ tipp = TippStart(A, B, vkey, wkey)
              /\ mipp = MippStart(A, B, vkey)

NextGipa == GipaTippRound \/ GipaTippReturn \/ GipaMippRound \/ GipaMippReturn

SpecGipa == InitGipa /\ [][NextGipa]_vars

\* The vector (s + t*i) of length n.
Progression(n, s0, t) == [i \in 1..n |-> (s0 + t * i) % FrModulus]

\* A batch of n proofs {a, b, c}.
Batch(n, s0, t) ==
    [i \in 1..n |-> [a |-> Progression(n, s0, t)[i],
                     b |-> Progression(n, t, s0 + 1)[i],
                     c |-> Progression(n, s0 + t, 1)[i]]]

\* aggregate_proofs is called with a batch of 1..MaxProofs proofs and an SRS
\* made for batches of 2^k proofs.
InitAgg ==
    /\ GpuOff
    /\ poly = PolyOff
    /\ tipp = TippOff
    /\ mipp = MippOff
    /\ \E n \in 1..MaxProofs, k \in 0..MaxLog :
         \E s0 \in 0..MaxCoef, t \in 0..MaxCoef,
            vkey \in Vectors(Pow2(k)), wkey \in Vectors(Pow2(k)) :
              agg = AggStart(SRS(Pow2(k), vkey, wkey), Batch(n, s0, t))

NextAgg ==
    \/ AggCheckSrs
    \/ AggCommit
    \/ AggDeriveR
    \/ AggRescale
    \/ AggProve
    \/ AggAssert
    \/ AggReturn

SpecAgg == InitAgg /\ [][NextAgg]_vars

\* The rayon tasks of the prover, scheduled one at a time in any order:
\* a run of aggregate_proofs, of gipa_tipp and gipa_mipp, or of the KZG
\* opening.
InitPar ==
    \/ InitAgg
    \/ InitPoly
    \/ /\ GpuOff
       /\ poly = PolyOff
       /\ agg = AggOff
       /\ \E k \in 0..MaxLog :
            \E A \in Vectors(Pow2(k)), B \in Vectors(Pow2(k)),
               vkey \in Vectors(Pow2(k)), wkey \in Vectors(Pow2(k)) :
                 \/ tipp = TippStart(A, B, vkey, wkey) /\ mipp = MippOff
                 \/ tipp = TippOff /\ mipp = MippStart(A, B, vkey)

NextPar ==
    \/ AggCheckSrs
    \/ ParTask
    \/ ParJoin
    \/ AggDeriveR
    \/ ParPowers
    \/ AggAssert
    \/ AggReturn
    \/ ParTippCross
    \/ ParTippJoin
    \/ GipaTippReturn
    \/ ParMippCross
    \/ ParMippJoin
    \/ GipaMippReturn
    \/ PolyCoefficients
    \/ PolyEvaluation
    \/ ParKzgMsm
    \/ ParKzgJoin

SpecPar == InitPar /\ [][NextPar]_vars


(***************************************************************************)
(*                              Claims                                     *)
(***************************************************************************)

Holders == {p \in Procs : kernel[p] # None}

\* C1: at most one process holds a kernel instance (kernel = Some) at any
\* time, and a process that holds a kernel also holds the GPU lock.
C1_GpuMutualExclusion ==
    /\ Cardinality(Holders) <= 1
    /\ \A p \in Holders : gpu_lock[p] /\ p \in gpu_file

\* C1, its case: one process runs its kernel while another one is inside
\* init(), waiting in GPULock::lock().
C1_Witness ==
    \E p, q \in Procs :
        /\ p # q
        /\ pc[p] = "run" /\ kernel[p] # None
        /\ pc[q] = "lock"

PriorityLockHeldByOther(p) == \E q \in Procs \ {p} : prio_lock[q]

\* C2: while a normal-priority kernel made by create_multiexp_kernel /
\* create_fft_kernel is executing inside with() and another process holds
\* the priority lock, the kernel's abort check reports true (so that the run
\* ends with GpuTaken and the GPU lock is released before the computation
\* completes).
C2_NormalKernelIsPreempted ==
    \A p \in Procs :
        (/\ pc[p] = "run"
         /\ ~priority[p]
         /\ f[p] = "multiexp"
         /\ PriorityLockHeldByOther(p))
        => KernelAbort(p)

\* The value at z of the polynomial with the given coefficient vector:
\* the sum over k of coeffs[k] * z^k.
RECURSIVE EvaluateAt(_, _)
EvaluateAt(coeffs, z) ==
    IF coeffs = <<>> THEN zero
    ELSE add(coeffs[1], mul(z, EvaluateAt(Right(coeffs, 1), z)))

\* C4: for every transcript of length l >= 1 and every z and r_shift the
\* product-form evaluation equals the value at z of the polynomial whose
\* coefficients are polynomial_coefficients_from_transcript(t, r_shift).
C4_ProductFormIsEvaluation ==
    (poly.pc = "done" /\ Len(poly.transcript) >= 1)
    => poly.value = EvaluateAt(poly.coefficients, poly.z)

\* C7: gipa_tipp and gipa_mipp keep their working sequences at one common
\* length at every round entry, halve it in every round and end after
\* exactly k = log2 n rounds with every sequence of length 1 and with
\* challenges, comms and z_vec of length k.
C7_GipaLengths ==
    /\ LET m == Len(tipp.m_a)
           k == Len(tipp.challenges)
       IN /\ ~tipp.panicked
          /\ Len(tipp.m_b) = m /\ Len(tipp.vkey) = m /\ Len(tipp.wkey) = m
          /\ m * Pow2(k) = tipp.n
          /\ Len(tipp.comms) = k /\ Len(tipp.z_vec) = k
          /\ tipp.pc = "done" => (m = 1 /\ k = Log2(tipp.n))
    /\ LET m == Len(mipp.m_c)
           k == Len(mipp.challenges)
       IN /\ ~mipp.panicked
          /\ Len(mipp.m_r) = m /\ Len(mipp.vkey) = m
          /\ m * Pow2(k) = mipp.n
          /\ Len(mipp.comms) = k /\ Len(mipp.z_vec) = k
          /\ mipp.pc = "done" => (m = 1 /\ k = Log2(mipp.n))

\* C7, its case: both recursions have returned on an input of length 4,
\* after two rounds each.
C7_Witness ==
    /\ tipp.pc = "done" /\ tipp.n = 4 /\ Len(tipp.challenges) = 2
    /\ mipp.pc = "done" /\ mipp.n = 4 /\ Len(mipp.challenges) = 2

BatchSize == Len(agg.proofs)

KeysMatchBatch ==
    Len(agg.srs.vkey) = BatchSize /\ Len(agg.srs.wkey) = BatchSize

\* aggregate_proofs returned from the check of lines 22-26, before any
\* commitment was made.
ReturnedAtSrsCheck == agg.pc = "done" /\ agg.com_c = NoFr

\* C3: aggregate_proofs returns MalformedSrs from the check of the key
\* lengths exactly when the length of VKey or of WKey differs from the
\* number of proofs; when both equal the batch size it goes on to commit to
\* A, B and C.
C3_MalformedSrsExactlyOnMismatch ==
    agg.pc \notin {"off", "check"} =>
        /\ (ReturnedAtSrsCheck /\ agg.result = "MalformedSrs") <=> ~KeysMatchBatch
        /\ KeysMatchBatch => agg.com_c # NoFr

\* C5: for a batch whose size is not a power of two aggregate_proofs returns
\* the error MalformedProofs, and no AggregateProof.
C5_NotPowerOfTwoIsMalformedProofs ==
    (agg.pc = "done" /\ ~is_power_of_two(BatchSize))
    => agg.result = "MalformedProofs"

\* C6: for a batch of exactly one proof aggregate_proofs returns an error
\* value or completes with zero GIPA rounds; it never panics.
C6_SingleProofNeverPanics ==
    (agg.pc = "done" /\ BatchSize = 1)
    => /\ agg.result # "panic"
       /\ agg.result = "Ok" =>
            /\ agg.tipa_proof_ab.gipa.challenges = <<>>
            /\ agg.tipa_proof_c.gipa.challenges = <<>>

\* C8: the commitment recomputed under vkey.scale(r_inv) and wkey equals
\* com_ab, so the assertion executed before returning holds for every batch
\* and every derived r.
C8_CommitmentAssertionHolds ==
    agg.computed_com_ab # <<NoFr, NoFr>> =>
        /\ agg.computed_com_ab = agg.com_ab
        /\ agg.result # "panic"

\* C9: for every batch of size n = 2^k (and an SRS made for n proofs)
\* aggregate_proofs returns a proof whose ip_ab is the product of the
\* e(A_i^{r^i}, B_i) and whose agg_c is the product of the C_i^{r^i}, r being
\* the value the Fiat-Shamir loop derives from the com_ab and com_c stored
\* in the proof.
C9_ReturnedProofRelations ==
    (agg.pc = "done" /\ is_power_of_two(BatchSize) /\ KeysMatchBatch) =>
        LET r == FullWidthLoop(0, <<agg.com_ab[1], agg.com_ab[2], agg.com_c>>).value
            r_vec == structured_scalar_power(BatchSize, r)
        IN /\ agg.result = "Ok"
           /\ agg.r = r
           /\ agg.ip_ab = pairing([i \in 1..BatchSize |-> mul(agg.A[i], r_vec[i])],
                                  agg.B)
           /\ agg.agg_c = multiexponentiation(agg.C, r_vec)

\* C10: the r produced by the Fiat-Shamir loop of aggregate_proofs is never
\* zero, so inverting every element of r_vec never fails.
C10_RescalingChallengeNeverZero ==
    /\ agg.r # NoFr => agg.r # zero
    /\ ~Panicked(InverseAll(agg.r_vec))

\* The kernel objects process p owns: the one in the field and the one free()
\* has moved into its local.
LiveKernels(p) == {kernel[p], taken_kernel[p]} \ {None}

\* The positions a retry of with() goes through after the closure reported
\* GpuTaken: free() in its two steps, then init() and the loop again.
RetryOrder == <<"free", "free_end", "init", "wait", "lock", "create", "loop", "run">>

\* C11: when the closure reports GpuTaken, with() drops the kernel and only
\* then releases the GPU lock (no step of a retry gives up the GPU lock while
\* a kernel object of the process is still alive afterwards), goes on through
\* the wait for the priority lock, the GPU lock, the kernel creation and the
\* closure in that order, and never returns GpuTaken.
C11_RetryDropsKernelThenLock ==
    [][\A p \in Procs :
          /\ result'[p] # "GpuTaken"
          /\ (f[p] # None /\ gpu_lock[p] /\ ~gpu_lock'[p]) => LiveKernels(p)' = {}
          /\ (pc[p] \in {"free", "free_end"} /\ pc'[p] # pc[p]) =>
                 \E i \in 1..(Len(RetryOrder) - 1) :
                     /\ RetryOrder[i] = pc[p]
                     /\ RetryOrder[i + 1] = pc'[p]]_vars

\* C12: when BELLMAN_NO_GPU is set, with() returns GpuDisabled at once and
\* leaves everything else as it was: a process with the variable set gets
\* no other value from with(), and no step takes it into init(), gives it a
\* handle on the priority lock file, the GPU lock or a kernel, or a closure
\* to run.
C12_NoGpuReturnsGpuDisabled ==
    [][\A p \in Procs :
          BELLMAN_NO_GPU[p] =>
              /\ result'[p] \in {None, "GpuDisabled"}
              /\ result'[p] \notin {None, result[p]} =>
                     UNCHANGED <<pc, priority, kernel, taken_kernel, gpu_lock,
                                 prio_lock, f, gpu_file, priority_file>>
              /\ pc'[p] = "idle"
              /\ f'[p] = None
              /\ LiveKernels(p)' = {}
              /\ ~gpu_lock'[p]
              /\ p \notin gpu_file'
              /\ <<p, "wait">> \notin priority_file']_vars

\* C12, its case: a process with BELLMAN_NO_GPU set has called with() and
\* got GpuDisabled while another process holds the GPU lock and a kernel.
C12_Witness ==
    \E p, q \in Procs :
        /\ BELLMAN_NO_GPU[p]
        /\ result[p] = "GpuDisabled"
        /\ kernel[q] # None
        /\ gpu_file = {q}

\* The errors with() returns to multiexp().
GpuErrors == {"Failure", "KernelUninitialized", "GpuDisabled"}

\* C13: multiexp() returns the GPU's value when with() returned Ok, without
\* having started the CPU computation, and otherwise the result of the CPU
\* computation after waiting for it; it never returns the GPU's error.
C13_MultiexpFallsBackToCpu ==
    [][\A p \in Procs :
          (multiexp_pc[p] # "idle" /\ multiexp_pc'[p] = "idle") =>
              /\ result[p] \in GpuErrors \cup {"Ok"}
              /\ multiexp_result'[p] \notin GpuErrors
              /\ IF result[p] \in GpuErrors
                   THEN /\ multiexp_result'[p] = "result_cpu"
                        /\ result_cpu[p] = "pending"
                        /\ result_cpu'[p] = "done"
                   ELSE /\ multiexp_result'[p] = "p"
                        /\ result_cpu'[p] = None]_vars

\* C13, its case: one process got the CPU result because BELLMAN_NO_GPU is
\* set, and another one got the GPU's value.
C13_Witness ==
    \E p, q \in Procs :
        /\ BELLMAN_NO_GPU[p]
        /\ multiexp_pc[p] = "idle"
        /\ multiexp_result[p] = "result_cpu"
        /\ result_cpu[p] = "done"
        /\ multiexp_pc[q] = "idle"
        /\ multiexp_result[q] = "p"

\* The steps of PriorityLock::wait(priority) as init() calls it: a normal
\* caller enters wait only by taking the free priority lock file exclusively
\* and leaves it by dropping that handle; a priority caller passes without
\* touching the file; nobody keeps a handle from wait, and should_break(true)
\* is false.
WaitSteps(p) ==
    /\ (pc[p] = "init" /\ pc'[p] = "wait") =>
           /\ ~priority[p]
           /\ priority_file = {}
           /\ priority_file' = {<<p, "wait">>}
    /\ (pc[p] = "wait" /\ pc'[p] # "wait") =>
           /\ pc'[p] = "lock"
           /\ priority_file = {<<p, "wait">>}
           /\ priority_file' = {}
    /\ (pc[p] = "init" /\ pc'[p] = "lock") =>
           /\ priority[p]
           /\ priority_file' = priority_file
    /\ pc'[p] = "lock" => pc[p] \in {"lock", IF priority[p] THEN "init" ELSE "wait"}
    /\ pc'[p] # "wait" => <<p, "wait">> \notin priority_file'
    /\ priority[p] => ~should_break(priority[p])

C15_NormalProcessesBothReturn ==
    /\ [](\A p \in Procs : pc[p] \notin {"free", "free_end"} /\ result[p] # "GpuTaken")
    /\ \A p \in Procs : (pc[p] # "idle") ~> (pc[p] = "idle" /\ result[p] # None)

\* The challenge the rounds before round k handed on: zero for the first
\* round, and otherwise the challenge round k - 1 pushed.
PreviousChallenge(challenges, k) == IF k = 1 THEN zero ELSE challenges[k - 1]

\* C17: in every round of gipa_tipp the hash input is the counter, the
\* previous challenge or zero, C_R.0, C_R.1, Z_R, C_L.0, C_L.1 and Z_L, in
\* this order.
C17_TippHashBindsBothCommitments ==
    \A k \in 1..Len(tipp.hash_inputs) :
        LET C_l == tipp.comms[k][1]
            C_r == tipp.comms[k][2]
            Z_l == tipp.z_vec[k][1]
            Z_r == tipp.z_vec[k][2]
        IN tipp.hash_inputs[k] =
               <<tipp.hash_inputs[k][1], PreviousChallenge(tipp.challenges, k),
                 C_r[1], C_r[2], Z_r, C_l[1], C_l[2], Z_l>>

\* C20: in gipa_tipp and in gipa_mipp the previous challenge hashed in the
\* first round is zero, and the one hashed in round k >= 2 is the challenge
\* pushed in round k - 1.
C20_PreviousChallengeIsLastEmitted ==
    /\ Len(tipp.challenges) = Len(tipp.hash_inputs)
    /\ Len(mipp.challenges) = Len(mipp.hash_inputs)
    /\ \A k \in 1..Len(tipp.hash_inputs) :
           tipp.hash_inputs[k][2] = PreviousChallenge(tipp.challenges, k)
    /\ \A k \in 1..Len(mipp.hash_inputs) :
           mipp.hash_inputs[k][2] = PreviousChallenge(mipp.challenges, k)

\* C20, its case: gipa_tipp and gipa_mipp have both gone through a first
\* round and a later one.
C20_Witness ==
    /\ Len(tipp.hash_inputs) >= 2
    /\ Len(mipp.hash_inputs) >= 2
    /\ tipp.hash_inputs[2][2] # zero
    /\ mipp.hash_inputs[2][2] # zero

\* C18: in prove_tipp the opening of vkey is computed from the reversed
\* list of the GIPA challenges with r_shift = r^-1, and the opening of wkey
\* from the list of the challenges as gipa_tipp emitted them with
\* r_shift = 1.
C18_TippOpeningTranscripts ==
    agg.tipa_proof_ab.vkey_opening.status # "none" =>
        /\ agg.tipa_proof_ab.vkey_opening.transcript =
               Reverse(agg.tipa_proof_ab.gipa.challenges)
        /\ agg.tipa_proof_ab.vkey_opening.r_shift = inverse(agg.r)
        /\ agg.tipa_proof_ab.wkey_opening.transcript =
               agg.tipa_proof_ab.gipa.challenges
        /\ agg.tipa_proof_ab.wkey_opening.r_shift = one

\* C19: the opening is the pair of the multi-scalar multiplication of the
\* zero-padded quotient coefficients against the alpha-powers table and of
\* the same coefficients against the beta-powers table, srs_powers_len terms
\* each.
C19_OpeningUsesBothTables ==
    poly.opening_status = "Ok" =>
        LET coeffs == quotient_polynomial(poly.coefficients, poly.value, poly.z)
        IN poly.opening =
               <<par_multiscalar(coeffs, poly.srs_powers_len,
                                 AlphaTable(poly.srs_powers_len)),
                 par_multiscalar(coeffs, poly.srs_powers_len,
                                 BetaTable(poly.srs_powers_len))>>

\* The state at the start of the round of gipa_tipp or gipa_mipp that s is in:
\* no closure of rayon::join has run.
RoundEntry(s, no_cross) == [s EXCEPT !.cross = no_cross, !.tasks = {}]

DigestFr(hash_input) == fr_from_u128(Sha256(hash_input))

\* What C21 says of one round, given the hash input the round accepted and
\* the challenge it pushed.
ChallengeOfRound(hash_input, c) ==
    LET counter_nonce == hash_input[1]
        items == Tail(hash_input)
        digest == DigestFr(hash_input)
    IN /\ counter_nonce \in Nat
       /\ \A j \in 0..(counter_nonce - 1) : inverse(DigestFr(<<j>> \o items)) = NoFr
       /\ inverse(digest) # NoFr
       /\ c = inverse(digest)
       /\ c # zero
       /\ \E ch \in {ChallengeLoop(0, items)} :
            /\ ch.counter_nonce = counter_nonce
            /\ ch.c = c
            /\ ch.c_inv = digest
            /\ mul(ch.c, ch.c_inv) = one

\* C21: in every round of gipa_tipp and of gipa_mipp the retry counter goes
\* 0, 1, 2, .. over the rejected digests; the accepted pair is c_inv = the
\* digest as a field element, c = its inverse, c * c_inv = 1; the challenge
\* pushed is c, which is never zero.
C21_ChallengeIsInverseOfDigest ==
    /\ Len(tipp.hash_inputs) = Len(tipp.challenges)
    /\ Len(mipp.hash_inputs) = Len(mipp.challenges)
    /\ \A k \in 1..Len(tipp.challenges) :
         ChallengeOfRound(tipp.hash_inputs[k], tipp.challenges[k])
    /\ \A k \in 1..Len(mipp.challenges) :
         ChallengeOfRound(mipp.hash_inputs[k], mipp.challenges[k])

\* A round of gipa_tipp whose first digest was rejected, and whose accepted
\* digest is not its own inverse.
C21_Witness ==
    \E k \in 1..Len(tipp.challenges) :
       /\ tipp.hash_inputs[k][1] > 0
       /\ tipp.challenges[k] # DigestFr(tipp.hash_inputs[k])

\* v[i] = old_L[i] + x * old_R[i] for every i below split (i from 1 here),
\* old_R starting at split.
FoldedFrom(v, old, split, x) ==
    /\ Len(v) >= split
    /\ Len(old) >= 2 * split
    /\ \A i \in 1..split : v[i] = add(old[i], mul(x, old[split + i]))

\* A step of gipa_tipp that is one round of its loop.
TippRoundStep == Len(tipp'.challenges) = Len(tipp.challenges) + 1

\* C22: a round of gipa_tipp with split m/2 leaves A[i] = A_L[i] + c*A_R[i],
\* B[i] = B_L[i] + c_inv*B_R[i], vkey[i] = vk_L[i] + c_inv*vk_R[i] and
\* wkey[i] = wk_L[i] + c*wk_R[i] for every i < m/2, over the values at the
\* entry of the round; for n = 2 the one round leaves the finals, which the
\* return does not change.
C22_TippFoldsFromRoundEntry ==
    [][/\ TippRoundStep =>
            \E split \in {GipaSplit(Len(tipp.m_a))}, c \in {Last(tipp'.challenges)} :
               \E c_inv \in {inverse(c)} :
                  /\ FoldedFrom(tipp'.m_a, tipp.m_a, split, c)
                  /\ FoldedFrom(tipp'.m_b, tipp.m_b, split, c_inv)
                  /\ FoldedFrom(tipp'.vkey, tipp.vkey, split, c_inv)
                  /\ FoldedFrom(tipp'.wkey, tipp.wkey, split, c)
                  /\ tipp.n = 2 =>
                       /\ tipp.challenges = <<>>
                       /\ ~TippContinues(tipp')
                       /\ Len(tipp'.m_a) = 1 /\ Len(tipp'.m_b) = 1
                       /\ Len(tipp'.vkey) = 1 /\ Len(tipp'.wkey) = 1
       /\ (tipp.pc = "loop" /\ tipp'.pc = "done") =>
            /\ ~tipp'.panicked
            /\ tipp'.m_a = tipp.m_a /\ tipp'.m_b = tipp.m_b
            /\ tipp'.vkey = tipp.vkey /\ tipp'.wkey = tipp.wkey
            /\ tipp.n = 2 => Len(tipp.challenges) = 1]_vars

\* gipa_tipp has returned on vectors of length 2 after its one round, whose
\* challenge is not 1.
C22_Witness ==
    /\ tipp.pc = "done"
    /\ ~tipp.panicked
    /\ tipp.n = 2
    /\ Len(tipp.challenges) = 1
    /\ tipp.challenges[1] # one

\* A step of gipa_mipp that is one round of its loop.
MippRoundStep == Len(mipp'.challenges) = Len(mipp.challenges) + 1

\* C23: a round of gipa_mipp with split m/2 leaves C[i] = C_L[i] + c*C_R[i],
\* r[i] = r_L[i] + c_inv*r_R[i] and vkey[i] = vk_L[i] + c_inv*vk_R[i] for
\* every i < m/2, over the values at the entry of the round, and the return
\* takes final_r from the folded r.
C23_MippFoldsFromRoundEntry ==
    [][/\ MippRoundStep =>
            \E split \in {GipaSplit(Len(mipp.m_c))}, c \in {Last(mipp'.challenges)} :
               \E c_inv \in {inverse(c)} :
                  /\ FoldedFrom(mipp'.m_c, mipp.m_c, split, c)
                  /\ FoldedFrom(mipp'.m_r, mipp.m_r, split, c_inv)
                  /\ FoldedFrom(mipp'.vkey, mipp.vkey, split, c_inv)
                  /\ Len(mipp'.m_r) = split
       /\ (mipp.pc = "loop" /\ mipp'.pc = "done") =>
            /\ ~mipp'.panicked
            /\ mipp'.m_c = mipp.m_c /\ mipp'.m_r = mipp.m_r
            /\ mipp'.vkey = mipp.vkey
            /\ Len(mipp.m_r) = 1]_vars

\* gipa_mipp has returned on vectors of length 2 with a final_r that is not
\* the r_L it was called with: gipa_tipp, called on the same B = r and not
\* yet in its first round, still holds that vector.
C23_Witness ==
    /\ mipp.pc = "done"
    /\ ~mipp.panicked
    /\ mipp.n = 2
    /\ tipp.challenges = <<>>
    /\ tipp.n = 2
    /\ mipp.m_r[1] # tipp.m_b[1]

\* The linear combination sum over k of coeff[k] * key[k].
LinearCombination(coeff, key) == pairing(coeff, key)

\* The final key is the combination of the key gipa_tipp was called with
\* under the coefficients of the polynomial of the transcript T.
FinalKeyIsPolynomial(final_key, key, T) ==
    \E coeff \in {polynomial_coefficients_from_transcript(T, one)} :
       /\ Len(coeff) = Len(key)
       /\ final_key = LinearCombination(coeff, key)

\* C24: for every power-of-two n the final_vkey and the final_wkey that
\* gipa_tipp returns are the linear combinations of the keys it was called
\* with, under the coefficients polynomial_coefficients_from_transcript(T, 1)
\* of the transcript T that prove_tipp hands to the KZG opening of that key.
C24_FinalKeysArePolynomialsOfOpeningTranscripts ==
    (tipp.pc = "done" /\ ~tipp.panicked /\ is_power_of_two(tipp.n)) =>
        /\ FinalKeyIsPolynomial(tipp.vkey[1], tipp.args.vkey,
                                VkeyOpeningTranscript(tipp.challenges))
        /\ FinalKeyIsPolynomial(tipp.wkey[1], tipp.args.wkey,
                                WkeyOpeningTranscript(tipp.challenges))

\* The positions of p at which no call of init() or free() is under way:
\* outside with(), and inside with() before and after each of the two.
BetweenCalls(p) == pc[p] \in {"idle", "init", "loop", "run", "free"}

\* C25: between the calls of init, free and with on a LockedKernel, gpu_lock
\* is Some exactly when kernel is Some, also after a kernel creation that
\* returned None and a with() that returned KernelUninitialized.
C25_GpuLockIffKernel ==
    \A p \in Procs : BetweenCalls(p) => (gpu_lock[p] <=> kernel[p] # None)

\* Process q makes no use of the GPU lock: it is outside with() and
\* multiexp() and holds no lock.
Quiet(q) ==
    /\ pc[q] = "idle"
    /\ multiexp_pc[q] = "idle"
    /\ ~gpu_lock[q]
    /\ q \notin gpu_file

\* C26: a call of with() by a process that is the only user of the GPU lock
\* returns, also when an earlier call on the same LockedKernel returned
\* KernelUninitialized: a process inside with() gets out of it, unless
\* another process comes to use the lock.
C26_LoneWithTerminates ==
    \A p \in Procs :
       (pc[p] # "idle") ~> (pc[p] = "idle" \/ \E q \in Procs \ {p} : ~Quiet(q))

\* The product over the first k rounds of Z_L^c * Z_R^(c^-1), in the group
\* GT written additively.
RECURSIVE CrossTerms(_, _, _)
CrossTerms(z_vec, challenges, k) ==
    IF k = 0 THEN zero
    ELSE add(CrossTerms(z_vec, challenges, k - 1),
             add(mul(challenges[k], z_vec[k][1]),
                 mul(inverse(challenges[k]), z_vec[k][2])))

\* C27: on an input of power-of-two length, after every round and at the
\* return of gipa_tipp, the inner pairing product of the folded vectors is
\* the one of the vectors gipa_tipp was called with times, for every round
\* so far, Z_L^c * Z_R^(c^-1) of the z_vec entry and the challenge of the
\* round; at the return this is e(final_A, final_B).
C27_FoldsChangeProductByCrossTerms ==
    (tipp.pc \in {"loop", "done"} /\ ~tipp.panicked /\ is_power_of_two(tipp.n)) =>
        /\ Len(tipp.z_vec) = Len(tipp.challenges)
        /\ Len(tipp.m_a) = Len(tipp.m_b)
        /\ tipp.pc = "done" => Len(tipp.m_a) = 1
        /\ pairing(tipp.m_a, tipp.m_b) =
              add(pairing(tipp.args.A, tipp.args.B),
                  CrossTerms(tipp.z_vec, tipp.challenges, Len(tipp.challenges)))

\* gipa_tipp has returned after two rounds, the first with cross terms that
\* differ and a challenge that is not its own inverse.
C27_Witness ==
    /\ tipp.pc = "done"
    /\ ~tipp.panicked
    /\ tipp.n = 4
    /\ Len(tipp.challenges) = 2
    /\ tipp.z_vec[1][1] # tipp.z_vec[1][2]
    /\ tipp.challenges[1] # inverse(tipp.challenges[1])


=============================================================================
